---- MODULE Spec2Model ----
(***************************************************************************)
(* BackendOutputResponder (src/src/backend_output_responder.cc): scatter   *)
(* of one contiguous output tensor into per-request response buffers, with *)
(* optional staging through a pinned host buffer and deferred fan-out.     *)
(*                                                                         *)
(* Two responder objects are driven by the same batch, the same calls and  *)
(* the same environment answers: `responder` is constructed with           *)
(* pinned_enabled = TRUE and `unstaged` with pinned_enabled = FALSE.       *)
(* Bytes are modelled exactly: byte i of output tensor t is SrcByte(t, i), *)
(* freshly allocated memory holds Uninit, and an asynchronous copy is an   *)
(* entry of the object's stream that reads its source when the device      *)
(* retires it.                                                             *)
(*                                                                         *)
(* BackendInputCollector (include/triton/backend/backend_input_collector.h)*)
(* is the reverse direction, the gather of the requests' input chunks into *)
(* one buffer; it has its own specification, CollectorSpec.                *)
(***************************************************************************)
EXTENDS Integers, Sequences, FiniteSets, TLC

\* ----------------------------------------------------------------- bounds
NumRequests == 3      \* requests (and response slots) in the batch
MaxTensors == 2       \* ProcessTensor calls before Finalize
MaxBatch == 2         \* largest first dimension of a request's input
DtypeSize == 1        \* byte size of one element of the output datatype
MaxDeviations == 1    \* environment answers that differ from the default
MaxChunks == 2        \* most chunks one request's input is split into

Slots == 1..NumRequests
Tensors == 1..MaxTensors
MemTypes == {"CPU", "CPU_PINNED", "GPU"}

\* The content of memory nobody has written yet.
Uninit == 0 - 1

\* Byte i (0-based) of the source buffer of output tensor t.
SrcByte(t, i) == 100 * t + i

\* What the environment may answer for one request in one ProcessTensor
\* call: the output is not requested ("skip"), one of the carrier calls
\* fails, or the output buffer is handed out in memory `actual` and the copy
\* into it succeeds ("ok") or fails ("copy_err").
RequestEnvs ==
  [kind : {"skip", "count_err", "name_err", "output_err", "buffer_err"},
   actual : {"CPU"}]
  \cup [kind : {"ok", "copy_err"}, actual : MemTypes]

\* What the environment may answer during one flush.
FlushEnvs == [alloc_fail : BOOLEAN, bulk_fail : BOOLEAN]
NoFlushFault == [alloc_fail |-> FALSE, bulk_fail |-> FALSE]

VARIABLES
  responder,     \* the object under study, pinned_enabled_ = TRUE
  unstaged,      \* the same batch handled with pinned_enabled_ = FALSE
  pc,            \* "idle", "loop", "finalized", "synced", "destroyed"
  output_name,   \* ProcessTensor: index of the tensor being processed
  memory_type,   \* ProcessTensor: memory type of the source buffer
  idx,           \* ProcessTensor: loop index (1-based)
  tensor_offset, \* ProcessTensor: running offset into the source buffer
  max_batch_size_,
  batchn_shape,  \* the caller's shape; [1] is overwritten per request
  shape0,        \* shape0[k]: first dimension of request k's first input
  alloc_default, \* memory type the response allocator hands out by default
  requested,     \* {<<t, k>>}: request k asked for output t
  actual,        \* actual[<<t, k>>]: memory type of k's buffer for output t,
                 \* for the ProcessTensor call in progress or just returned
  injected,      \* {<<fault, t, k>>}: the faults the environment injected
  deviations,    \* environment answers so far that were not the default
  collector,     \* a BackendInputCollector
  gather         \* the collector's ProcessTensor call and its environment

responder_vars == <<responder, unstaged, pc, output_name, memory_type, idx, tensor_offset, max_batch_size_, batchn_shape, shape0, alloc_default, requested, actual, injected, deviations>>

collector_vars == <<collector, gather>>

vars == <<responder_vars, collector_vars>>

\* ------------------------------------------------------------ the object
NewResponder(pinned_enabled, event) ==
  [pinned_enabled_ |-> pinned_enabled,
   event_ |-> event,
   need_sync_ |-> FALSE,
   pending_pinned_byte_size_ |-> 0,
   pending_pinned_offset_ |-> 0,
   pending_pinned_outputs_ |-> <<>>,
   deferred_pinned_ |-> <<>>,
   pinned_memories_ |-> <<>>,
   responses |-> [k \in Slots |-> TRUE],         \* TRUE: slot is non-null
   buffers |-> [x \in Tensors \X Slots |-> <<>>], \* response output buffers
   pinned_heap |-> <<>>,      \* contents of pinned buffer id, by id
   freed |-> <<>>,            \* ids handed to MemoryManagerFree, in order
   stream |-> <<>>,           \* async copies enqueued and not yet retired
   enqueued |-> 0,
   retired |-> 0,
   event_mark |-> 0,          \* `enqueued` at the last cudaEventRecord
   returned |-> "none",       \* Finalize's return value, once it returned
   at_finalize |-> <<>>,      \* deferred_pinned_ as Finalize found it
   log |-> <<>>]              \* every external call the object made

Entry(op, by, src, dst, size, ok, async, live) ==
  [op |-> op, by |-> by, src |-> src, dst |-> dst, size |-> size, ok |-> ok,
   async |-> async, live |-> live]

NoLoc == [space |-> "none", id |-> 0, name |-> 0, off |-> 0]
TensorAt(t, off) == [space |-> "tensor", id |-> 0, name |-> t, off |-> off]
PinnedAt(id, off) == [space |-> "pinned", id |-> id, name |-> 0, off |-> off]
ResponseBuffer(k, t) == [space |-> "response", id |-> k, name |-> t, off |-> 0]

Log(o, e) == [o EXCEPT !.log = Append(@, e)]

\* ------------------------------------------------------------ memory
Read(o, src, size) ==
  [i \in 1..size |->
     IF src.space = "tensor" THEN SrcByte(src.name, src.off + i - 1)
     ELSE IF src.id \in DOMAIN o.pinned_heap
               /\ src.off + i \in DOMAIN o.pinned_heap[src.id]
          THEN o.pinned_heap[src.id][src.off + i]
          ELSE Uninit]

Write(o, dst, bytes) ==
  IF dst.space = "response"
  THEN [o EXCEPT !.buffers[<<dst.name, dst.id>>] = bytes]
  ELSE [o EXCEPT !.pinned_heap[dst.id] = bytes]

\* The device retires the n oldest copies of the stream.
RECURSIVE Retire(_, _)
Retire(o, n) ==
  IF n <= 0 \/ o.stream = <<>> THEN o
  ELSE LET c == Head(o.stream)
           o1 == Write(o, c.dst, Read(o, c.src, c.size))
       IN Retire([o1 EXCEPT !.stream = Tail(@), !.retired = @ + 1], n - 1)

cudaStreamSynchronize(o) ==
  Retire(Log(o, Entry("sync", "stream", NoLoc, NoLoc, 0, TRUE, FALSE, TRUE)),
         Len(o.stream))

cudaEventSynchronize(o) ==
  Retire(Log(o, Entry("sync", "event", NoLoc, NoLoc, 0, TRUE, FALSE, TRUE)),
         o.event_mark - o.retired)

cudaEventRecord(o) ==
  [Log(o, Entry("record", "event", NoLoc, NoLoc, 0, TRUE, FALSE, TRUE))
     EXCEPT !.event_mark = o.enqueued]

\* ------------------------------------------------- external collaborators
\* CopyBuffer: a host memcpy when neither end is GPU memory, otherwise an
\* asynchronous copy on the stream; cuda_used reports whether the stream was
\* used. A failing copy moves no bytes and does not use the stream.
CopyBuffer(o, by, src_memory_type, dst_memory_type, byte_size, src, dst, fail) ==
  LET live == IF dst.space = "response" THEN o.responses[dst.id] ELSE TRUE
      cuda == src_memory_type = "GPU" \/ dst_memory_type = "GPU"
      o1 == Log(o, Entry("copy", by, src, dst, byte_size, ~fail,
                         cuda /\ ~fail, live))
  IN IF fail THEN [o |-> o1, err |-> TRUE, cuda_used |-> FALSE]
     ELSE IF cuda
     THEN [o |-> [o1 EXCEPT
                    !.stream = Append(@, [src |-> src, dst |-> dst,
                                          size |-> byte_size]),
                    !.enqueued = @ + 1],
           err |-> FALSE, cuda_used |-> TRUE]
     ELSE [o |-> Write(o1, dst, Read(o1, src, byte_size)),
           err |-> FALSE, cuda_used |-> FALSE]

\* A send is logged with its flags (by), whether it carries no error (ok)
\* and whether the slot was non-null when it was sent (live).
TRITONBACKEND_ResponseSend(o, k, flags, err) ==
  Log(o, Entry("send", flags, NoLoc, ResponseBuffer(k, 0), 0, ~err, FALSE,
               o.responses[k]))

\* The macro: when the call failed and the slot is non-null, send the error
\* as the final response and null the slot.
RESPOND_AND_SET_NULL_IF_ERROR(o, k, err) ==
  IF err /\ o.responses[k]
  THEN [TRITONBACKEND_ResponseSend(o, k, "COMPLETE_FINAL", TRUE)
          EXCEPT !.responses[k] = FALSE]
  ELSE o

TRITONBACKEND_OutputBuffer(o, k, t, byte_size) ==
  [o EXCEPT !.buffers[<<t, k>>] = [i \in 1..byte_size |-> Uninit]]

RECURSIVE Product(_)
Product(shape) ==
  IF shape = <<>> THEN 1 ELSE Head(shape) * Product(Tail(shape))

GetByteSize(dtype_size, shape) == dtype_size * Product(shape)

\* Mutant of ResponseShape: the caller's shape is used as it is.
ResponseShapeKeeps(max_batch_size, shape, first_dim) == shape

\* The shape of one request's part of the output: with batching, the first
\* dimension is the first dimension of the request's first input.
ResponseShape(max_batch_size, shape, first_dim) ==
  IF max_batch_size # 0 THEN [shape EXCEPT ![1] = first_dim] ELSE shape

\* ------------------------------------------------------- the responder
\* Mutant of Latch: the flag is assigned, not or-ed.
LatchOverwrites(need_sync, cuda_copy) == cuda_copy

Latch(need_sync, cuda_copy) == need_sync \/ cuda_copy

\* Mutant of UsePinnedMemoryType: the staged side is the tensor's own side.
UsePinnedMemoryTypeSameSide(o, tensor_memory_type) ==
  IF o.pinned_enabled_ THEN tensor_memory_type ELSE "CPU_PINNED"

UsePinnedMemoryType(o, tensor_memory_type) ==
  IF o.pinned_enabled_ /\ tensor_memory_type # "CPU_PINNED"
  THEN (IF tensor_memory_type = "CPU" THEN "GPU" ELSE "CPU")
  ELSE "CPU_PINNED"

\* Where the fragment at `offset` of the pending run lives in the source.
DirectSource(o, t, offset) == TensorAt(t, o.pending_pinned_offset_ + offset)

\* Mutant of PinnedSource: every fragment is read from the block's start.
PinnedSourceAtStart(pinned_memory, offset) == PinnedAt(pinned_memory, 0)

\* Where the fragment at `offset` of a pinned block lives in the block.
PinnedSource(pinned_memory, offset) == PinnedAt(pinned_memory, offset)

\* Mutant of NextOffset: a failed fragment does not advance the offset.
NextOffsetUnlessError(offset, pr, err) ==
  IF err THEN offset ELSE offset + pr.buffer_byte_size_

NextOffset(offset, pr, err) == offset + pr.buffer_byte_size_

\* The three per-fragment loops (direct fallback, fan-out in the flush,
\* deferred fan-out in Finalize): copy each fragment from base + offset into
\* its response buffer, fail the response on error, advance the offset.
RECURSIVE CopyFragments(_, _, _, _, _, _, _, _)

\* cuda_copy |= cuda_used, for the result r of a step.
CudaCopy(cuda_used, r) == [o |-> r.o, cuda_copy |-> cuda_used \/ r.cuda_copy]

\* The loop from the point where the copy of fragment i has returned r.
CopyFragmentsAfter(r, frags, i, offset, by, src_memory_type, base, cf) ==
  CudaCopy(r.cuda_used,
           CopyFragments(
             RESPOND_AND_SET_NULL_IF_ERROR(r.o, frags[i].response, r.err),
             frags, i + 1, NextOffset(offset, frags[i], r.err), by,
             src_memory_type, base, cf))

CopyFragments(o, frags, i, offset, by, src_memory_type, base, cf) ==
  IF i > Len(frags) THEN [o |-> o, cuda_copy |-> FALSE]
  ELSE LET pr == frags[i]
           src == IF base.space = "tensor"
                  THEN DirectSource(o, base.name, offset)
                  ELSE PinnedSource(base.id, offset)
       IN CopyFragmentsAfter(
            CopyBuffer(o, by, src_memory_type, pr.memory_type_,
                       pr.buffer_byte_size_, src,
                       ResponseBuffer(pr.response, pr.name_),
                       <<pr.name_, pr.response>> \in cf),
            frags, i, offset, by, src_memory_type, base, cf)

\* Mutant of FailPending: the error is sent but the slot is not nulled.
RECURSIVE FailPendingKeepsSlot(_, _, _)
FailPendingKeepsSlot(o, frags, i) ==
  IF i > Len(frags) THEN o
  ELSE LET k == frags[i].response
           o1 == IF o.responses[k]
                 THEN TRITONBACKEND_ResponseSend(o, k, "COMPLETE_FINAL", TRUE)
                 ELSE o
       IN FailPendingKeepsSlot(o1, frags, i + 1)

\* The bulk copy failed: every pending response that is still non-null is
\* sent the error and nulled.
RECURSIVE FailPending(_, _, _)
FailPending(o, frags, i) ==
  IF i > Len(frags) THEN o
  ELSE LET k == frags[i].response
           o1 == IF o.responses[k]
                 THEN [TRITONBACKEND_ResponseSend(o, k, "COMPLETE_FINAL",
                                                  TRUE)
                         EXCEPT !.responses[k] = FALSE]
                 ELSE o
       IN FailPending(o1, frags, i + 1)

\* Mutant of ResetPending: the fragment list is cleared, the size is kept.
ResetPendingKeepsSize(o) == [o EXCEPT !.pending_pinned_outputs_ = <<>>]

ResetPending(o) ==
  [o EXCEPT !.pending_pinned_byte_size_ = 0,
            !.pending_pinned_offset_ = 0,
            !.pending_pinned_outputs_ = <<>>]

\* Mutant of Retain: the pointer is recorded even when it is null.
RetainAlways(o, got, pinned_memory) ==
  [o EXCEPT !.pinned_memories_ = Append(@, pinned_memory)]

Retain(o, got, pinned_memory) ==
  IF got THEN [o EXCEPT !.pinned_memories_ = Append(@, pinned_memory)] ELSE o

\* Mutant of BulkSource: the bulk copy reads from the start of the tensor.
BulkSourceAtStart(o, t) == TensorAt(t, 0)

\* Where the pending run starts in the source buffer.
BulkSource(o, t) == TensorAt(t, o.pending_pinned_offset_)

\* Mutant of FanOutOrDefer: the fragments are copied out of the pinned buffer
\* at once, whether or not the bulk copy used the stream.
FanOutNeverDefers(o, cuda_used, pinned_memory, cf) ==
  CudaCopy(cuda_used,
           CopyFragments(o, o.pending_pinned_outputs_, 1, 0, "fanout",
                         "CPU_PINNED", PinnedAt(pinned_memory, 0), cf))

\* After the bulk copy: when it was synchronous the pinned buffer holds the
\* run and the fragments are copied out of it at once; otherwise the block is
\* deferred to Finalize.
FanOutOrDefer(o, cuda_used, pinned_memory, cf) ==
  IF ~cuda_used
  THEN CudaCopy(cuda_used,
                CopyFragments(o, o.pending_pinned_outputs_, 1, 0, "fanout",
                              "CPU_PINNED", PinnedAt(pinned_memory, 0), cf))
  ELSE [o |-> [o EXCEPT !.deferred_pinned_ =
                 Append(@, [pinned_memory_ |-> pinned_memory,
                            pinned_memory_size_ |->
                              o.pending_pinned_byte_size_,
                            responses_ |-> o.pending_pinned_outputs_])],
        cuda_copy |-> cuda_used]

\* Mutant of FlushStagedAfter: a failed bulk copy fails the first pending
\* response only.
FlushStagedAfterFailsFirst(r, pinned_memory, cf) ==
  FanOutOrDefer(IF r.err
                THEN FailPending(r.o, SubSeq(r.o.pending_pinned_outputs_, 1, 1), 1)
                ELSE r.o,
                r.cuda_used, pinned_memory, cf)

\* The branch taken when the pinned buffer was allocated, from the point
\* where the bulk copy has returned r.
FlushStagedAfter(r, pinned_memory, cf) ==
  FanOutOrDefer(IF r.err
                THEN FailPending(r.o, r.o.pending_pinned_outputs_, 1)
                ELSE r.o,
                r.cuda_used, pinned_memory, cf)

\* The branch taken when the pinned buffer was allocated.
FlushStaged(o, t, tensor_memory_type, pinned_memory, f, cf) ==
  FlushStagedAfter(
    CopyBuffer(o, "bulk", tensor_memory_type, "CPU_PINNED",
               o.pending_pinned_byte_size_, BulkSource(o, t),
               PinnedAt(pinned_memory, 0), f.bulk_fail),
    pinned_memory, cf)

\* The attempt to allocate the pinned buffer of a non-empty pending run.
TRITONBACKEND_MemoryManagerAllocate(o, want, got, pinned_memory) ==
  LET o1 == IF want
            THEN Log(o, Entry("alloc", "pinned", NoLoc,
                              PinnedAt(pinned_memory, 0),
                              o.pending_pinned_byte_size_, got, FALSE, TRUE))
            ELSE o
  IN IF got
     THEN [o1 EXCEPT !.pinned_heap =
             Append(@, [i \in 1..o.pending_pinned_byte_size_ |-> Uninit])]
     ELSE o1

\* The copies of a flush: direct when there is no pinned buffer.
FlushCopies(o, t, tensor_memory_type, got, pinned_memory, f, cf) ==
  IF ~got
  THEN CopyFragments(o, o.pending_pinned_outputs_, 1, 0, "fallback",
                     tensor_memory_type, TensorAt(t, 0), cf)
  ELSE FlushStaged(o, t, tensor_memory_type, pinned_memory, f, cf)

\* The end of a flush whose copies returned r.
FlushEnd(r, got, pinned_memory) ==
  [o |-> Retain(ResetPending(r.o), got, pinned_memory),
   cuda_copy |-> r.cuda_copy]

\* Mutant of AllocationWanted: a flush allocates even for an empty run.
AllocationWantedAlways(o) == TRUE

\* A pinned buffer is asked for only when something is pending.
AllocationWanted(o) == o.pending_pinned_byte_size_ > 0

FlushPendingPinned(o, t, tensor_memory_type, f, cf) ==
  LET want == AllocationWanted(o)
      got == want /\ ~f.alloc_fail
      pinned_memory == Len(o.pinned_heap) + 1
  IN FlushEnd(
       FlushCopies(
         TRITONBACKEND_MemoryManagerAllocate(o, want, got, pinned_memory),
         t, tensor_memory_type, got, pinned_memory, f, cf),
       got, pinned_memory)

\* Mutant of PendingByteSize: the size of the run is the size of its last
\* fragment.
PendingByteSizeOfLast(o, tensor_byte_size) == tensor_byte_size

\* The size of the pending run once a slice of tensor_byte_size joined it.
PendingByteSize(o, tensor_byte_size) ==
  o.pending_pinned_byte_size_ + tensor_byte_size

\* Mutant of PendingOffset: every staged response moves the start of the run.
PendingOffsetAlwaysSet(o, offset) == offset

\* The start of the pending run once the slice at `offset` has joined it.
PendingOffset(o, offset) ==
  IF o.pending_pinned_byte_size_ = 0 THEN offset ELSE o.pending_pinned_offset_

SetFixedSizeOutputBuffer(o, k, t, tensor_byte_size, offset, tensor_memory_type, use_pinned_memory_type, e, cf) ==
  IF e.kind = "buffer_err"
  THEN [o |-> RESPOND_AND_SET_NULL_IF_ERROR(o, k, TRUE), cuda_copy |-> FALSE]
  ELSE
    LET o1 == TRITONBACKEND_OutputBuffer(o, k, t, tensor_byte_size)
        actual_memory_type == e.actual
    IN IF use_pinned_memory_type # "CPU_PINNED"
          /\ actual_memory_type = use_pinned_memory_type
       THEN [o |-> [o1 EXCEPT
                      !.pending_pinned_offset_ = PendingOffset(o1, offset),
                      !.pending_pinned_byte_size_ =
                        PendingByteSize(o1, tensor_byte_size),
                      !.pending_pinned_outputs_ =
                        Append(@, [response |-> k, name_ |-> t,
                                   buffer_byte_size_ |-> tensor_byte_size,
                                   memory_type_ |-> actual_memory_type])],
             cuda_copy |-> FALSE]
       ELSE LET r == CopyBuffer(o1, "direct", tensor_memory_type,
                                actual_memory_type, tensor_byte_size,
                                TensorAt(t, offset), ResponseBuffer(k, t),
                                <<t, k>> \in cf)
            IN [o |-> RESPOND_AND_SET_NULL_IF_ERROR(r.o, k, r.err),
                cuda_copy |-> r.cuda_used]

\* Mutant of FlushNeeded: any pending run is flushed before the next
\* response, contiguous or not.
FlushNeededAlways(o, offset) == o.pending_pinned_byte_size_ > 0

\* Is the pending run not contiguous with the slice starting at `offset`?
FlushNeeded(o, offset) ==
  o.pending_pinned_byte_size_ > 0
  /\ offset # o.pending_pinned_byte_size_ + o.pending_pinned_offset_

\* need_sync_ |= the result of the step r.
NeedSync(r) == [r.o EXCEPT !.need_sync_ = Latch(@, r.cuda_copy)]

\* The flush that starts an iteration when the pending run cannot be
\* extended by this response's slice.
FlushIfNeeded(o, t, offset, tensor_memory_type, f, cf) ==
  NeedSync(IF FlushNeeded(o, offset)
           THEN FlushPendingPinned(o, t, tensor_memory_type, f, cf)
           ELSE [o |-> o, cuda_copy |-> FALSE])

\* The response handling of one iteration.
HandleResponse(o, k, t, tensor_byte_size, offset, tensor_memory_type, e, cf) ==
  IF ~o.responses[k] THEN o
  ELSE IF e.kind \in {"count_err", "name_err", "output_err"}
  THEN RESPOND_AND_SET_NULL_IF_ERROR(o, k, TRUE)
  ELSE IF e.kind = "skip" THEN o
  ELSE NeedSync(SetFixedSizeOutputBuffer(
                  o, k, t, tensor_byte_size, offset, tensor_memory_type,
                  UsePinnedMemoryType(o, tensor_memory_type), e, cf))

\* One iteration of ProcessTensor's loop, for request k.
ProcessRequest(o, k, t, tensor_byte_size, offset, tensor_memory_type, e, f, cf) ==
  HandleResponse(FlushIfNeeded(o, t, offset, tensor_memory_type, f, cf),
                 k, t, tensor_byte_size, offset, tensor_memory_type, e, cf)

\* Mutant of RecordIfNeeded: the event is recorded once and never moved.
RecordIfFirst(o) ==
  IF o.need_sync_ /\ o.event_ /\ o.event_mark = 0 THEN cudaEventRecord(o) ELSE o

\* The event is recorded when a synchronization is needed.
RecordIfNeeded(o) ==
  IF o.need_sync_ /\ o.event_ THEN cudaEventRecord(o) ELSE o

\* The end of ProcessTensor: the final flush and the event record.
ProcessTensorEnd(o, t, tensor_memory_type, f, cf) ==
  RecordIfNeeded(NeedSync(FlushPendingPinned(o, t, tensor_memory_type, f, cf)))

RECURSIVE FinalizeDeferred(_, _, _, _)
FinalizeDeferred(o, blocks, i, cf) ==
  IF i > Len(blocks) THEN o
  ELSE FinalizeDeferred(
         NeedSync(CopyFragments(o, blocks[i].responses_, 1, 0, "deferred",
                                "CPU_PINNED",
                                PinnedAt(blocks[i].pinned_memory_, 0), cf)),
         blocks, i + 1, cf)

\* Mutant of ClearDeferred: the list is left as it is.
ClearDeferredKeeps(o) == o

ClearDeferred(o) == [o EXCEPT !.deferred_pinned_ = <<>>]

\* Mutant of FinalizeSync: the flag is cleared without waiting.
FinalizeSyncSkipsWait(o) ==
  IF o.deferred_pinned_ # <<>> /\ o.need_sync_
  THEN [o EXCEPT !.need_sync_ = FALSE]
  ELSE o

\* Finalize waits for the copies into the deferred blocks.
FinalizeSync(o) ==
  IF o.deferred_pinned_ # <<>> /\ o.need_sync_
  THEN [(IF o.event_ THEN cudaEventSynchronize(o)
         ELSE cudaStreamSynchronize(o))
          EXCEPT !.need_sync_ = FALSE]
  ELSE o

FinalizeFanOut(o, cf) == FinalizeDeferred(o, o.deferred_pinned_, 1, cf)

\* The event is recorded again when deferred copies used the stream.
FinalizeRecord(o) ==
  IF o.deferred_pinned_ # <<>> /\ o.need_sync_ /\ o.event_
  THEN cudaEventRecord(o) ELSE o

\* Finalize's result; `found` is the deferred list Finalize was called with.
FinalizeReturn(o, found) ==
  [o EXCEPT !.returned = IF o.need_sync_ THEN "true" ELSE "false",
            !.at_finalize = found]

Finalize(o, cf) ==
  FinalizeReturn(
    ClearDeferred(FinalizeRecord(FinalizeFanOut(FinalizeSync(o), cf))),
    o.deferred_pinned_)

\* Mutant of Destructor: only the first retained buffer is freed.
DestructorFreesFirst(o, i) ==
  IF o.pinned_memories_ = <<>> THEN o
  ELSE [o EXCEPT !.freed = <<Head(o.pinned_memories_)>>]

RECURSIVE Destructor(_, _)
Destructor(o, i) ==
  IF i > Len(o.pinned_memories_) THEN o
  ELSE Destructor(
         [Log(o, Entry("free", "pinned", NoLoc,
                       PinnedAt(o.pinned_memories_[i], 0), 0, TRUE, FALSE,
                       TRUE))
            EXCEPT !.freed = Append(@, o.pinned_memories_[i])],
         i + 1)

\* ------------------------------------------------------------ the batch
\* First dimensions of the requests' inputs: heterogeneous batch sizes.
ShapeProfile == [k \in Slots |-> 1 + (k % MaxBatch)]

DefaultEnv == [kind |-> "ok", actual |-> alloc_default]

\* How far the environment's answers are from a homogeneous, fault-free
\* batch: one for each of a request that does not ask for the output or whose
\* carrier call or copy fails, an overridden memory type, a failing pinned
\* allocation, a failing bulk copy.
Cost(e, f) ==
  (IF e.kind = "ok" THEN 0 ELSE 1)
  + (IF e.actual = alloc_default \/ e.kind \notin {"ok", "copy_err"}
     THEN 0 ELSE 1)
  + (IF f.alloc_fail THEN 1 ELSE 0) + (IF f.bulk_fail THEN 1 ELSE 0)

\* The faults in the answers e and f given while request k of tensor t is
\* handled (k = 0: at the end of the tensor). The calls that fail before
\* there is an output buffer to copy into are one class of fault.
FaultsOf(e, f, t, k) ==
  (IF e.kind \in {"count_err", "name_err", "output_err", "buffer_err"}
   THEN {<<"request_err", t, k>>}
   ELSE IF e.kind = "copy_err" THEN {<<"copy_err", t, k>>}
   ELSE {})
  \cup (IF f.alloc_fail THEN {<<"alloc_fail", t, k>>} ELSE {})
  \cup (IF f.bulk_fail THEN {<<"bulk_fail", t, k>>} ELSE {})

\* The response buffers a copy into which fails.
CopyFail(inj) == {<<x[2], x[3]>> : x \in {y \in inj : y[1] = "copy_err"}}

\* The flush answers that can matter: an allocation is attempted only when
\* the staging responder flushes a non-empty run, the bulk copy only when the
\* allocation succeeded.
FlushEnvsFor(flushes) ==
  {f \in FlushEnvs :
     /\ (f # NoFlushFault => flushes)
     /\ ~(f.alloc_fail /\ f.bulk_fail)}

\* ======================================================= the collector
\* BackendInputCollector: the chunks of one named input, over all requests,
\* are gathered into one destination buffer. The requests' chunking is fixed
\* by ChunkCount and ChunkSize (different per request); where each chunk
\* lives, where the destination lives and whether a pinned allocation fails
\* are the environment's choices.
ChunkCount(k) == 1 + (k % MaxChunks)
ChunkSize(k, c) == 1 + ((k + c) % MaxBatch)

\* Byte i (0-based) of chunk c of request k's input.
ChunkByte(k, c, i) == 1000 * k + 100 * c + i

ChunkAt(k, c) == [space |-> "chunk", id |-> k, name |-> c, off |-> 0]
DestinationAt(off) == [space |-> "destination", id |-> 0, name |-> 0, off |-> off]

ChunkBytes(k, c) == [i \in 1..ChunkSize(k, c) |-> ChunkByte(k, c, i - 1)]

RECURSIVE InputBytes(_, _)
InputBytes(k, c) ==
  IF c > ChunkCount(k) THEN <<>> ELSE ChunkBytes(k, c) \o InputBytes(k, c + 1)

\* The inputs of requests k, k+1, ... one after the other.
RECURSIVE BatchBytes(_)
BatchBytes(k) ==
  IF k > NumRequests THEN <<>> ELSE InputBytes(k, 1) \o BatchBytes(k + 1)

NewCollector(pinned_enabled, event) ==
  [pinned_enabled_ |-> pinned_enabled,
   event_ |-> event,
   need_sync_ |-> FALSE,
   pending_pinned_byte_size_ |-> 0,
   pending_pinned_offset_ |-> 0,
   pending_pinned_inputs_ |-> <<>>,
   deferred_pinned_ |-> <<>>,
   destination |-> [i \in 1..Len(BatchBytes(1)) |-> Uninit],
   pinned_heap |-> <<>>,
   stream |-> <<>>,
   enqueued |-> 0,
   retired |-> 0,
   event_mark |-> 0,
   returned |-> "none",
   log |-> <<>>]

GatherRead(o, src, size) ==
  [i \in 1..size |->
     IF src.space = "chunk" THEN ChunkByte(src.id, src.name, src.off + i - 1)
     ELSE o.pinned_heap[src.id][src.off + i]]

\* `old` with `bytes` written at offset off.
Overwrite(old, off, bytes) ==
  [i \in DOMAIN old |->
     IF i > off /\ i <= off + Len(bytes) THEN bytes[i - off] ELSE old[i]]

GatherWrite(o, dst, bytes) ==
  IF dst.space = "destination"
  THEN [o EXCEPT !.destination = Overwrite(@, dst.off, bytes)]
  ELSE [o EXCEPT !.pinned_heap[dst.id] = Overwrite(@, dst.off, bytes)]

\* The device retires the n oldest copies of the collector's stream.
RECURSIVE GatherRetire(_, _)
GatherRetire(o, n) ==
  IF n <= 0 \/ o.stream = <<>> THEN o
  ELSE GatherRetire(
         [GatherWrite(o, Head(o.stream).dst,
                      GatherRead(o, Head(o.stream).src, Head(o.stream).size))
            EXCEPT !.stream = Tail(@), !.retired = @ + 1],
         n - 1)

\* The copy primitive as the collector uses it (no copy fails here).
GatherCopy(o, by, src_memory_type, dst_memory_type, byte_size, src, dst) ==
  IF src_memory_type = "GPU" \/ dst_memory_type = "GPU"
  THEN [o |-> [Log(o, Entry("copy", by, src, dst, byte_size, TRUE, TRUE, TRUE))
                 EXCEPT !.stream = Append(@, [src |-> src, dst |-> dst,
                                              size |-> byte_size]),
                        !.enqueued = @ + 1],
        cuda_copy |-> TRUE]
  ELSE [o |-> GatherWrite(
                Log(o, Entry("copy", by, src, dst, byte_size, TRUE, FALSE,
                             TRUE)),
                dst, GatherRead(o, src, byte_size)),
        cuda_copy |-> FALSE]

\* The staging rule: a chunk goes through a pinned buffer when it and the
\* destination are on opposite sides of the host/device boundary.
UsePinned(o, chunk_memory_type, tensor_memory_type) ==
  /\ o.pinned_enabled_
  /\ <<chunk_memory_type, tensor_memory_type>> \in {<<"CPU", "GPU">>, <<"GPU", "CPU">>}

\* Each pending fragment is copied to base + its offset in the run.
RECURSIVE GatherFragments(_, _, _, _, _, _, _)

GatherFragmentsAfter(r, frags, i, offset, by, dst_memory_type, base) ==
  CudaCopy(r.cuda_copy,
           GatherFragments(r.o, frags, i + 1, offset + frags[i].byte_size_,
                           by, dst_memory_type, base))

GatherFragments(o, frags, i, offset, by, dst_memory_type, base) ==
  IF i > Len(frags) THEN [o |-> o, cuda_copy |-> FALSE]
  ELSE GatherFragmentsAfter(
         GatherCopy(o, by, frags[i].memory_type_, dst_memory_type,
                    frags[i].byte_size_, ChunkAt(frags[i].input, frags[i].chunk),
                    [base EXCEPT !.off = @ + offset]),
         frags, i, offset, by, dst_memory_type, base)

\* Mutant of PinnedToTensor: the block is copied to the start of the tensor.
PinnedToTensorAtStart(o, pinned_memory, size, tensor_memory_type, offset, by) ==
  GatherCopy(o, by, "CPU_PINNED", tensor_memory_type, size,
             PinnedAt(pinned_memory, 0), DestinationAt(0))

\* The one copy of a pinned block into its place in the tensor buffer.
PinnedToTensor(o, pinned_memory, size, tensor_memory_type, offset, by) ==
  GatherCopy(o, by, "CPU_PINNED", tensor_memory_type, size,
             PinnedAt(pinned_memory, 0), DestinationAt(offset))

\* After the fragments were copied into the pinned buffer: when none of
\* those copies was asynchronous the block is copied into the tensor at
\* once, otherwise that copy is deferred to Finalize.
BlockOrDefer(r, pinned_memory, tensor_memory_type) ==
  IF ~r.cuda_copy
  THEN PinnedToTensor(r.o, pinned_memory, r.o.pending_pinned_byte_size_,
                      tensor_memory_type, r.o.pending_pinned_offset_, "block")
  ELSE [o |-> [r.o EXCEPT !.deferred_pinned_ =
                 Append(@, [pinned_memory_ |-> pinned_memory,
                            pinned_memory_size_ |->
                              r.o.pending_pinned_byte_size_,
                            tensor_buffer_offset_ |->
                              r.o.pending_pinned_offset_,
                            tensor_memory_type_ |-> tensor_memory_type,
                            requests_ |-> r.o.pending_pinned_inputs_])],
        cuda_copy |-> TRUE]

GatherFlushCopies(o, tensor_memory_type, got, pinned_memory) ==
  IF ~got
  THEN GatherFragments(o, o.pending_pinned_inputs_, 1, 0, "fallback",
                       tensor_memory_type,
                       DestinationAt(o.pending_pinned_offset_))
  ELSE BlockOrDefer(
         GatherFragments(o, o.pending_pinned_inputs_, 1, 0, "stage",
                         "CPU_PINNED", PinnedAt(pinned_memory, 0)),
         pinned_memory, tensor_memory_type)

GatherFlushEnd(r) ==
  [o |-> [r.o EXCEPT !.pending_pinned_byte_size_ = 0,
                     !.pending_pinned_offset_ = 0,
                     !.pending_pinned_inputs_ = <<>>],
   cuda_copy |-> r.cuda_copy]

\* BackendInputCollector::FlushPendingPinned.
GatherFlush(o, tensor_memory_type, alloc_fail) ==
  IF o.pending_pinned_byte_size_ = 0 THEN [o |-> o, cuda_copy |-> FALSE]
  ELSE GatherFlushEnd(
         GatherFlushCopies(
           TRITONBACKEND_MemoryManagerAllocate(
             o, TRUE, ~alloc_fail, Len(o.pinned_heap) + 1),
           tensor_memory_type, ~alloc_fail, Len(o.pinned_heap) + 1))

\* The chunk is appended to the pending run.
AppendPending(o, k, c, chunk_memory_type, offset) ==
  [o EXCEPT
     !.pending_pinned_offset_ =
       IF o.pending_pinned_byte_size_ = 0 THEN offset ELSE @,
     !.pending_pinned_byte_size_ = @ + ChunkSize(k, c),
     !.pending_pinned_inputs_ =
       Append(@, [input |-> k, chunk |-> c, byte_size_ |-> ChunkSize(k, c),
                  memory_type_ |-> chunk_memory_type])]

\* Can the chunk at `offset` extend the pending run?
Contiguous(o, offset) ==
  offset = o.pending_pinned_offset_ + o.pending_pinned_byte_size_

\* The chunk once the pending run it cannot extend has been flushed.
PlaceAfterFlush(o, k, c, chunk_memory_type, tensor_memory_type, offset) ==
  IF UsePinned(o, chunk_memory_type, tensor_memory_type)
  THEN AppendPending(o, k, c, chunk_memory_type, offset)
  ELSE NeedSync(GatherCopy(o, "direct", chunk_memory_type, tensor_memory_type,
                           ChunkSize(k, c), ChunkAt(k, c),
                           DestinationAt(offset)))

\* The placement of chunk c of request k at `offset` of the tensor buffer.
PlaceChunk(o, k, c, chunk_memory_type, tensor_memory_type, offset, alloc_fail) ==
  IF UsePinned(o, chunk_memory_type, tensor_memory_type) /\ Contiguous(o, offset)
  THEN AppendPending(o, k, c, chunk_memory_type, offset)
  ELSE PlaceAfterFlush(
         NeedSync(GatherFlush(o, tensor_memory_type, alloc_fail)),
         k, c, chunk_memory_type, tensor_memory_type, offset)

\* The end of the collector's ProcessTensor.
GatherEnd(o, tensor_memory_type, alloc_fail) ==
  RecordIfNeeded(NeedSync(GatherFlush(o, tensor_memory_type, alloc_fail)))

\* The copies Finalize makes for the deferred blocks.
RECURSIVE GatherDeferred(_, _, _)
GatherDeferred(o, blocks, i) ==
  IF i > Len(blocks) THEN o
  ELSE GatherDeferred(
         NeedSync(PinnedToTensor(o, blocks[i].pinned_memory_,
                                 blocks[i].pinned_memory_size_,
                                 blocks[i].tensor_memory_type_,
                                 blocks[i].tensor_buffer_offset_, "deferred")),
         blocks, i + 1)

\* Mutant of GatherFinalizeSync: the flag is cleared without waiting.
GatherFinalizeSyncSkipped(o) ==
  IF o.deferred_pinned_ # <<>> /\ o.need_sync_
  THEN [o EXCEPT !.need_sync_ = FALSE]
  ELSE o

\* Finalize waits for the copies into the deferred blocks.
GatherFinalizeSync(o) ==
  IF o.deferred_pinned_ # <<>> /\ o.need_sync_
  THEN [GatherRetire(
          Log(o, Entry("sync", IF o.event_ THEN "event" ELSE "stream", NoLoc,
                       NoLoc, 0, TRUE, FALSE, TRUE)),
          IF o.event_ THEN o.event_mark - o.retired ELSE Len(o.stream))
          EXCEPT !.need_sync_ = FALSE]
  ELSE o

GatherFinalizeFanOut(o) == GatherDeferred(o, o.deferred_pinned_, 1)

\* BackendInputCollector::Finalize.
GatherFinalizeReturn(o) ==
  [o EXCEPT !.returned = IF o.need_sync_ THEN "true" ELSE "false"]

GatherFinalize(o) ==
  GatherFinalizeReturn(
    ClearDeferred(FinalizeRecord(GatherFinalizeFanOut(GatherFinalizeSync(o)))))

\* The faults and choices of the environment so far stay within the budget.
ChunkCost(m, alloc_fail) ==
  (IF m = gather.chunk_default THEN 0 ELSE 1) + (IF alloc_fail THEN 1 ELSE 0)

ResponderUnused ==
  /\ responder = NewResponder(TRUE, FALSE)
  /\ unstaged = NewResponder(FALSE, FALSE)
  /\ pc = "unused"
  /\ output_name = 0
  /\ memory_type = "CPU"
  /\ idx = 0
  /\ tensor_offset = 0
  /\ max_batch_size_ = 0
  /\ shape0 = ShapeProfile
  /\ batchn_shape = <<1>>
  /\ alloc_default = "CPU"
  /\ requested = {}
  /\ actual = [x \in Tensors \X Slots |-> "none"]
  /\ injected = {}
  /\ deviations = 0

CollectorUnused ==
  /\ collector = NewCollector(FALSE, FALSE)
  /\ gather = [pc |-> "unused", memory_type |-> "CPU", chunk_default |-> "CPU",
               idx |-> 0, chunk |-> 0, buffer_offset |-> 0, deviations |-> 0]

CollectorInit ==
  /\ ResponderUnused
  /\ \E pinned_enabled \in BOOLEAN, event \in BOOLEAN :
       collector = NewCollector(pinned_enabled, event)
  /\ \E m \in MemTypes :
       gather = [pc |-> "idle", memory_type |-> "CPU", chunk_default |-> m,
                 idx |-> 0, chunk |-> 0, buffer_offset |-> 0,
                 deviations |-> 0]

\* ProcessTensor, up to the loop: the caller says where the destination is.
Gather_Begin ==
  /\ gather.pc = "idle"
  /\ collector.returned = "none"
  /\ gather.idx = 0
  /\ \E m \in MemTypes :
       gather' = [gather EXCEPT !.pc = "loop", !.memory_type = m, !.idx = 1,
                                !.chunk = 1, !.buffer_offset = 0]
  /\ UNCHANGED <<collector, responder_vars>>

\* ProcessTensor, one chunk of one request's input.
Gather_Chunk ==
  /\ gather.pc = "loop"
  /\ gather.idx <= NumRequests
  /\ \E m \in MemTypes :
     \E alloc_fail \in {FALSE} \cup
          (IF collector.pending_pinned_byte_size_ > 0
              /\ ~(UsePinned(collector, m, gather.memory_type)
                   /\ Contiguous(collector, gather.buffer_offset))
           THEN {TRUE} ELSE {}) :
       /\ gather.deviations + ChunkCost(m, alloc_fail) <= MaxDeviations
       /\ collector' = PlaceChunk(collector, gather.idx, gather.chunk, m,
                                  gather.memory_type, gather.buffer_offset,
                                  alloc_fail)
       /\ gather' =
            [gather EXCEPT
               !.deviations = @ + ChunkCost(m, alloc_fail),
               !.buffer_offset = @ + ChunkSize(gather.idx, gather.chunk),
               !.chunk = IF @ < ChunkCount(gather.idx) THEN @ + 1 ELSE 1,
               !.idx = IF gather.chunk < ChunkCount(gather.idx)
                       THEN @ ELSE @ + 1]
  /\ UNCHANGED responder_vars

\* ProcessTensor, after the loop.
Gather_End ==
  /\ gather.pc = "loop"
  /\ gather.idx > NumRequests
  /\ \E alloc_fail \in {FALSE} \cup
          (IF collector.pending_pinned_byte_size_ > 0 THEN {TRUE} ELSE {}) :
       /\ gather.deviations + ChunkCost(gather.chunk_default, alloc_fail)
            <= MaxDeviations
       /\ collector' = GatherEnd(collector, gather.memory_type, alloc_fail)
       /\ gather' = [gather EXCEPT
                       !.pc = "idle",
                       !.deviations =
                         @ + ChunkCost(gather.chunk_default, alloc_fail)]
  /\ UNCHANGED responder_vars

Gather_Finalize ==
  /\ gather.pc = "idle"
  /\ gather.idx > NumRequests
  /\ collector' = GatherFinalize(collector)
  /\ gather' = [gather EXCEPT !.pc = "finalized"]
  /\ UNCHANGED responder_vars

\* The caller does what Finalize's result asks for.
Gather_CallerSync ==
  /\ gather.pc = "finalized"
  /\ \E via \in {"stream"} \cup (IF collector.event_ THEN {"event"} ELSE {}) :
       collector' = IF collector.returned = "true"
                    THEN GatherRetire(collector,
                                      IF via = "event"
                                      THEN collector.event_mark
                                             - collector.retired
                                      ELSE Len(collector.stream))
                    ELSE collector
  /\ gather' = [gather EXCEPT !.pc = "synced"]
  /\ UNCHANGED responder_vars

CollectorNext ==
  \/ Gather_Begin
  \/ Gather_Chunk
  \/ Gather_End
  \/ Gather_Finalize
  \/ Gather_CallerSync

CollectorSpec == CollectorInit /\ [][CollectorNext]_vars

Init ==
  /\ \E event \in BOOLEAN :
       /\ responder = NewResponder(TRUE, event)
       /\ unstaged = NewResponder(FALSE, event)
  /\ pc = "idle"
  /\ output_name = 0
  /\ memory_type = "CPU"
  /\ idx = 0
  /\ tensor_offset = 0
  /\ max_batch_size_ \in {0, MaxBatch}
  /\ shape0 = ShapeProfile
  /\ batchn_shape = <<1>>
  /\ alloc_default \in MemTypes
  /\ requested = {}
  /\ actual = [x \in Tensors \X Slots |-> "none"]
  /\ injected = {}
  /\ deviations = 0
  /\ CollectorUnused

\* ProcessTensor, up to the loop: the caller names the next output and says
\* where its buffer lives. Outputs after the first live where the previous
\* one did unless the environment deviates.
ProcessTensor_Begin ==
  /\ pc = "idle"
  /\ output_name < MaxTensors
  /\ output_name' = output_name + 1
  /\ \E m \in MemTypes :
       LET cost == IF output_name >= 1 /\ m # memory_type THEN 1 ELSE 0
       IN /\ deviations + cost <= MaxDeviations
          /\ deviations' = deviations + cost
          /\ memory_type' = m
  /\ batchn_shape' = <<MaxBatch>>
  /\ idx' = 1
  /\ tensor_offset' = 0
  /\ pc' = "loop"
  /\ actual' = [x \in Tensors \X Slots |-> "none"]
  /\ UNCHANGED collector_vars
  /\ UNCHANGED <<responder, unstaged, max_batch_size_, shape0, alloc_default,
                 requested, injected>>

\* ProcessTensor, one iteration of the loop over the responses.
ProcessTensor_Request ==
  /\ pc = "loop"
  /\ idx <= NumRequests
  /\ \E e \in RequestEnvs :
     \E f \in FlushEnvsFor(FlushNeeded(responder, tensor_offset)) :
       LET shape == ResponseShape(max_batch_size_, batchn_shape, shape0[idx])
           tensor_byte_size == GetByteSize(DtypeSize, shape)
           inj == injected \cup FaultsOf(e, f, output_name, idx)
           cf == CopyFail(inj)
       IN /\ (~responder.responses[idx] /\ ~unstaged.responses[idx])
               => e = DefaultEnv
          /\ deviations + Cost(e, f) <= MaxDeviations
          /\ deviations' = deviations + Cost(e, f)
          /\ batchn_shape' = shape
          /\ injected' = inj
          /\ requested' =
               IF e.kind # "skip"
               THEN requested \cup {<<output_name, idx>>} ELSE requested
          /\ actual' =
               IF e.kind \in {"ok", "copy_err"}
               THEN [actual EXCEPT ![<<output_name, idx>>] = e.actual]
               ELSE actual
          /\ responder' = ProcessRequest(responder, idx, output_name,
                                         tensor_byte_size, tensor_offset,
                                         memory_type, e, f, cf)
          /\ unstaged' = ProcessRequest(unstaged, idx, output_name,
                                        tensor_byte_size, tensor_offset,
                                        memory_type, e, f, cf)
          /\ tensor_offset' = tensor_offset + tensor_byte_size
  /\ idx' = idx + 1
  /\ UNCHANGED collector_vars
  /\ UNCHANGED <<pc, output_name, memory_type, max_batch_size_, shape0,
                 alloc_default>>

\* ProcessTensor, after the loop.
ProcessTensor_End ==
  /\ pc = "loop"
  /\ idx > NumRequests
  /\ \E f \in FlushEnvsFor(responder.pending_pinned_byte_size_ > 0) :
       /\ deviations + Cost(DefaultEnv, f) <= MaxDeviations
       /\ deviations' = deviations + Cost(DefaultEnv, f)
       /\ injected' = injected \cup FaultsOf(DefaultEnv, f, output_name, 0)
       /\ responder' = ProcessTensorEnd(responder, output_name, memory_type,
                                        f, CopyFail(injected))
       /\ unstaged' = ProcessTensorEnd(unstaged, output_name, memory_type,
                                       f, CopyFail(injected))
  /\ pc' = "idle"
  /\ UNCHANGED collector_vars
  /\ UNCHANGED <<output_name, memory_type, idx, tensor_offset,
                 max_batch_size_, batchn_shape, shape0, alloc_default,
                 requested, actual>>

DoFinalize ==
  /\ pc = "idle"
  /\ output_name >= 1
  /\ responder' = Finalize(responder, CopyFail(injected))
  /\ unstaged' = Finalize(unstaged, CopyFail(injected))
  /\ pc' = "finalized"
  /\ actual' = [x \in Tensors \X Slots |-> "none"]
  /\ UNCHANGED collector_vars
  /\ UNCHANGED <<output_name, memory_type, idx, tensor_offset,
                 max_batch_size_, batchn_shape, shape0, alloc_default,
                 requested, injected, deviations>>

\* The device catches up: it retires every copy enqueued on the responder's
\* stream. The host reads memory that an asynchronous copy writes only in
\* Finalize's fan-out and afterwards, so until Finalize has returned the
\* device is taken to be as late as it can be, retiring copies only when the
\* host synchronizes.
DeviceStep ==
  /\ pc = "finalized"
  /\ responder.stream # <<>>
  /\ responder' = Retire(responder, Len(responder.stream))
  /\ UNCHANGED collector_vars
  /\ UNCHANGED <<unstaged, pc, output_name, memory_type, idx, tensor_offset,
                 max_batch_size_, batchn_shape, shape0, alloc_default,
                 requested, actual, injected, deviations>>

\* The caller does what Finalize's result asks for: when it returned true,
\* it synchronizes on the event (if one is configured) or on the stream.
CallerSynchronize(o, via) ==
  IF o.returned = "true"
  THEN Retire(o, IF via = "event" THEN o.event_mark - o.retired
                 ELSE Len(o.stream))
  ELSE o

CallerSync ==
  /\ pc = "finalized"
  /\ \E via \in {"stream"} \cup (IF responder.event_ THEN {"event"} ELSE {}) :
       /\ responder' = CallerSynchronize(responder, via)
       /\ unstaged' = CallerSynchronize(unstaged, via)
  /\ pc' = "synced"
  /\ UNCHANGED collector_vars
  /\ UNCHANGED <<output_name, memory_type, idx, tensor_offset,
                 max_batch_size_, batchn_shape, shape0, alloc_default,
                 requested, actual, injected, deviations>>

Destroy ==
  /\ pc = "synced"
  /\ responder' = Destructor(responder, 1)
  /\ unstaged' = Destructor(unstaged, 1)
  /\ pc' = "destroyed"
  /\ UNCHANGED collector_vars
  /\ UNCHANGED <<output_name, memory_type, idx, tensor_offset,
                 max_batch_size_, batchn_shape, shape0, alloc_default,
                 requested, actual, injected, deviations>>

Next ==
  \/ ProcessTensor_Begin
  \/ ProcessTensor_Request
  \/ ProcessTensor_End
  \/ DoFinalize
  \/ DeviceStep
  \/ CallerSync
  \/ Destroy

Spec == Init /\ [][Next]_vars

\* ================================================================ claims
Objects == {responder, unstaged}

\* The caller has done what Finalize's result asks for.
Settled(o) ==
  pc \in {"synced", "destroyed"} \/ (pc = "finalized" /\ o.returned = "false")

\* The slice of the source that belongs to request k, computed from the
\* batch alone.
ExpectedSize(k) ==
  DtypeSize * (IF max_batch_size_ # 0 THEN shape0[k] ELSE MaxBatch)

RECURSIVE ExpectedOffset(_)
ExpectedOffset(k) ==
  IF k = 1 THEN 0 ELSE ExpectedOffset(k - 1) + ExpectedSize(k - 1)

ExpectedBytes(t, k) ==
  [i \in 1..ExpectedSize(k) |-> SrcByte(t, ExpectedOffset(k) + i - 1)]

Holds(o, t, k) == o.buffers[<<t, k>>] = ExpectedBytes(t, k)

\* Indices of the log entries of o with operation op issued by `by`.
Issued(o, op, by) ==
  {j \in DOMAIN o.log : o.log[j].op = op /\ o.log[j].by = by}

SendsTo(o, k) ==
  {j \in DOMAIN o.log : o.log[j].op = "send" /\ o.log[j].dst.id = k}

FaultKinds == {x[1] : x \in injected}

\* C1: after ProcessTensor, Finalize and the synchronization Finalize asks
\* for, every response that requested an output and was not failed holds
\* exactly its slice [off_k, off_k + size_k) of that output's source buffer,
\* whichever path (direct, staged, deferred) the bytes took.
OutputContentPreserved ==
  \A o \in Objects :
    Settled(o) =>
      \A x \in requested : o.responses[x[2]] => Holds(o, x[1], x[2])

\* A settled run in which one tensor went through a deferred pinned block and
\* another was copied directly, and no response was failed.
OutputContentWitness ==
  /\ pc = "synced"
  /\ \A k \in Slots : responder.responses[k]
  /\ \E j \in Issued(responder, "copy", "deferred") : responder.log[j].ok
  /\ \E j \in Issued(responder, "copy", "direct") : responder.log[j].ok
  /\ Cardinality(requested) = NumRequests * MaxTensors

\* C2: need_sync is never false while a copy the object enqueued has not
\* retired; in particular no copy is outstanding when Finalize returned false.
SyncSoundness ==
  \A o \in Objects :
    /\ o.returned = "false" => o.stream = <<>>
    /\ ~o.need_sync_ => o.stream = <<>>

\* Finalize returned false although the object had enqueued async copies.
SyncSoundnessWitness ==
  /\ pc = "finalized"
  /\ responder.returned = "false"
  /\ responder.enqueued > 0

\* C3: when the only fault is that the copy into request k's output buffer
\* fails, or that a call made for request k before the copy fails (the
\* allocation of its output buffer among them), every other slot stays
\* non-null and holds its bytes, and response k is nulled and was sent exactly
\* once, with the complete-final flag and the error.
ErrorIsolation ==
  \A o \in Objects :
    Settled(o) =>
      \A x \in injected :
        (injected = {x} /\ x[1] \in {"request_err", "copy_err"}) =>
          /\ \A j \in Slots \ {x[3]} :
               /\ o.responses[j]
               /\ \A t \in Tensors : <<t, j>> \in requested => Holds(o, t, j)
          /\ ~o.responses[x[3]]
          /\ Cardinality(SendsTo(o, x[3])) = 1
          /\ \A j \in SendsTo(o, x[3]) :
               o.log[j].by = "COMPLETE_FINAL" /\ ~o.log[j].ok

\* The copy that fails is the deferred fan-out of the first fragment of a
\* block of NumRequests fragments.
ErrorIsolationWitness ==
  /\ pc = "synced"
  /\ \E t \in Tensors : injected = {<<"copy_err", t, 1>>}
  /\ \E j \in Issued(responder, "copy", "deferred") :
       ~responder.log[j].ok /\ responder.log[j].dst.id = 1
  /\ \E b \in DOMAIN responder.at_finalize :
       Len(responder.at_finalize[b].responses_) = NumRequests

\* C4: a failing pinned allocation fails no response, leaves no pinned
\* buffer retained for that flush, makes the flush copy each pending fragment
\* from its own slice of the source, and gives the same response buffers as
\* the responder constructed with pinned_enabled = false: in every buffer
\* when no copy fails as well, and in every buffer of a delivered response
\* when per-request copies fail too (a failing bulk copy has no counterpart
\* in the other run).
PinnedAllocFailureTransparent ==
  /\ Len(responder.pinned_memories_)
       = Cardinality({j \in Issued(responder, "alloc", "pinned") :
                        responder.log[j].ok})
  /\ \A j \in Issued(responder, "copy", "fallback") :
       LET c == responder.log[j]
       IN /\ c.src = TensorAt(c.dst.name, ExpectedOffset(c.dst.id))
          /\ c.size = ExpectedSize(c.dst.id)
  /\ FaultKinds \subseteq {"alloc_fail"} =>
       \A k \in Slots : responder.responses[k]
  /\ (pc \in {"synced", "destroyed"} /\ "alloc_fail" \in FaultKinds
        /\ FaultKinds \cap {"copy_err", "bulk_fail"} = {}) =>
       /\ responder.buffers = unstaged.buffers
       /\ responder.responses = unstaged.responses
  /\ (pc \in {"synced", "destroyed"} /\ "alloc_fail" \in FaultKinds
        /\ "bulk_fail" \notin FaultKinds) =>
       /\ responder.responses = unstaged.responses
       /\ \A k \in Slots : \A t \in Tensors :
            responder.responses[k] =>
              responder.buffers[<<t, k>>] = unstaged.buffers[<<t, k>>]

\* A settled run in which an allocation failed and the flush fell back to
\* direct copies of at least two fragments.
PinnedAllocFailureWitness ==
  /\ pc = "synced"
  /\ FaultKinds = {"alloc_fail"}
  /\ Cardinality({j \in Issued(responder, "copy", "fallback") :
                    responder.log[j].ok}) >= 2

\* C5: without copy errors the responder with pinned_enabled = true and the
\* one with pinned_enabled = false end with the same bytes in every response
\* buffer and the same non-null slots.
PinnedEquivalence ==
  (pc \in {"synced", "destroyed"}
     /\ FaultKinds \cap {"copy_err", "bulk_fail"} = {}) =>
    /\ responder.buffers = unstaged.buffers
    /\ responder.responses = unstaged.responses

\* A settled fault-free run in which a pending run that does not start at
\* offset 0 was staged through a pinned buffer.
PinnedEquivalenceWitness ==
  /\ pc = "synced"
  /\ FaultKinds = {}
  /\ \E j \in Issued(responder, "copy", "bulk") :
       responder.log[j].ok /\ responder.log[j].src.off > 0
  /\ \E j \in Issued(unstaged, "copy", "direct") : unstaged.log[j].ok

NulledSlotSkipped ==
  \A o \in Objects :
    \A j \in DOMAIN o.log :
      (o.log[j].op = "copy" /\ o.log[j].dst.space = "response")
        => o.log[j].live

\* C8: a response is sent at most once per slot, always with the
\* complete-final flag and an error, the slot is null from then on, and a
\* null slot never becomes non-null again.
SendInvariant ==
  \A o \in Objects :
    \A k \in Slots :
      /\ Cardinality(SendsTo(o, k)) <= 1
      /\ \A j \in SendsTo(o, k) :
           o.log[j].by = "COMPLETE_FINAL" /\ ~o.log[j].ok /\ o.log[j].live
      /\ SendsTo(o, k) # {} => ~o.responses[k]

NullStaysNull ==
  \A k \in Slots :
    /\ ~responder.responses[k] => ~responder'.responses[k]
    /\ ~unstaged.responses[k] => ~unstaged'.responses[k]

NoPendingBetweenCalls ==
  pc # "loop" =>
    \A o \in Objects :
      /\ o.pending_pinned_byte_size_ = 0
      /\ o.pending_pinned_outputs_ = <<>>

\* ProcessTensor has returned after a flush whose pinned allocation failed.
NoPendingWitness ==
  /\ pc = "idle"
  /\ \E j \in Issued(responder, "alloc", "pinned") : ~responder.log[j].ok

\* Offset of fragment i in its pinned block.
RECURSIVE FragmentOffset(_, _)
FragmentOffset(frags, i) ==
  IF i = 1 THEN 0
  ELSE FragmentOffset(frags, i - 1) + frags[i - 1].buffer_byte_size_

\* C10: once Finalize has returned the deferred list is empty, and each
\* fragment of each block Finalize found has had its pinned-to-response copy
\* issued exactly once; no such copy is issued before Finalize.
DeferredDrainedByFinalize ==
  \A o \in Objects :
    LET deferred == Issued(o, "copy", "deferred")
        blocks == o.at_finalize
    IN /\ o.returned = "none" => deferred = {}
       /\ o.returned # "none" =>
            /\ o.deferred_pinned_ = <<>>
            /\ \A b \in DOMAIN blocks :
                 \A i \in DOMAIN blocks[b].responses_ :
                   LET pr == blocks[b].responses_[i]
                   IN Cardinality(
                        {j \in deferred :
                           /\ o.log[j].src =
                                PinnedAt(blocks[b].pinned_memory_,
                                         FragmentOffset(blocks[b].responses_, i))
                           /\ o.log[j].dst = ResponseBuffer(pr.response, pr.name_)
                           /\ o.log[j].size = pr.buffer_byte_size_}) = 1

\* Finalize found two deferred blocks of at least two fragments each.
DeferredDrainedWitness ==
  /\ pc = "finalized"
  /\ Len(responder.at_finalize) >= 2
  /\ \A b \in DOMAIN responder.at_finalize :
       Len(responder.at_finalize[b].responses_) >= 2

\* Indices of the synchronizations the object performed itself.
Syncs(o) == {j \in DOMAIN o.log : o.log[j].op = "sync"}

AsyncCopies(o) == {j \in DOMAIN o.log : o.log[j].op = "copy" /\ o.log[j].async}

NeedSyncLatched ==
  \A o \in Objects : (o.returned = "none" /\ AsyncCopies(o) # {}) => o.need_sync_

NeedSyncClearedBySync ==
  /\ (responder.need_sync_ /\ ~responder'.need_sync_) =>
       /\ pc = "idle" /\ pc' = "finalized"
       /\ Cardinality(Syncs(responder')) > Cardinality(Syncs(responder))
  /\ (unstaged.need_sync_ /\ ~unstaged'.need_sync_) =>
       /\ pc = "idle" /\ pc' = "finalized"
       /\ Cardinality(Syncs(unstaged')) > Cardinality(Syncs(unstaged))

\* C11: until Finalize is called need_sync is true whenever a copy of the
\* object used the stream, so it stays true through all later ProcessTensor
\* calls; the only step that takes it from true to false is Finalize, and in
\* that step Finalize has synchronized on the event or the stream.
NeedSyncLatch == []NeedSyncLatched /\ [][NeedSyncClearedBySync]_vars

\* Finalize, called after MaxTensors outputs, found need_sync set, waited on
\* the event and returned false.
NeedSyncLatchWitness ==
  /\ pc = "finalized"
  /\ output_name = MaxTensors
  /\ responder.returned = "false"
  /\ Issued(responder, "sync", "event") # {}
  /\ AsyncCopies(responder) # {}

\* The pinned allocations the responder has made.
Allocations == {j \in Issued(responder, "alloc", "pinned") : responder.log[j].ok}

\* The fragments of the responder's pending run, as response indices.
PendingResponses ==
  [i \in DOMAIN responder.pending_pinned_outputs_ |->
     responder.pending_pinned_outputs_[i].response]

\* The first output is being processed without faults, and the buffers of
\* the first responses were handed out in the memory types `types`.
FirstEndpoints(types) ==
  /\ output_name = 1
  /\ injected = {}
  /\ Len(types) <= NumRequests
  /\ \A k \in DOMAIN types : actual[<<1, k>>] = types[k]

\* C12 as stated: with response buffers in pinned, host, pinned memory the
\* run of the first response is flushed before the second response is
\* handled and the third response starts a new run, the second allocation
\* coming with the final flush.
S5AsStated ==
  FirstEndpoints(<<"CPU_PINNED", "CPU", "CPU_PINNED">>) =>
    /\ (pc = "loop" /\ idx = 3) => Cardinality(Allocations) = 1
    /\ (pc = "loop" /\ idx = 4) =>
         Cardinality(Allocations) = 1 /\ PendingResponses = <<3>>
    /\ (pc = "idle" /\ NumRequests = 3) => Cardinality(Allocations) = 2

\* The memory type whose response buffers are staged for the current source.
StagedType == UsePinnedMemoryType(responder, memory_type)

\* C12, amended: when the first and third response buffers are in the staged
\* memory type and the second is not, the second response is copied directly
\* without a flush, the run of the first response is flushed when the third
\* response is reached, the third response starts a new run at its own
\* offset, and a call for three responses makes exactly two allocations.
S5ContiguityBreak ==
  \A other \in MemTypes \ {StagedType} :
    StagedType # "CPU_PINNED" =>
    /\ (FirstEndpoints(<<StagedType, other>>) /\ pc = "loop" /\ idx = 3) =>
         /\ Allocations = {}
         /\ PendingResponses = <<1>>
         /\ Issued(responder, "copy", "direct") # {}
    /\ FirstEndpoints(<<StagedType, other, StagedType>>) =>
         /\ (pc = "loop" /\ idx = 4) =>
              /\ Cardinality(Allocations) = 1
              /\ PendingResponses = <<3>>
              /\ responder.pending_pinned_offset_ = ExpectedOffset(3)
         /\ (pc = "idle" /\ NumRequests = 3) =>
              Cardinality(Allocations) = 2

\* ProcessTensor returned after a staged, a direct and a staged response, the
\* source being in GPU memory.
S5Witness ==
  /\ pc = "idle"
  /\ memory_type = "GPU"
  /\ FirstEndpoints(<<"CPU", "CPU_PINNED", "CPU">>)
  /\ Cardinality(Allocations) = 2
  /\ Len(responder.deferred_pinned_) = 2

GatherSettled ==
  \/ gather.pc = "synced"
  \/ gather.pc = "finalized" /\ collector.returned = "false"

\* C13: after the collector's ProcessTensor and Finalize, and the
\* synchronization Finalize asked for, the destination buffer is the
\* concatenation of all requests' chunks in request order and chunk order.
InputContentPreserved == GatherSettled => collector.destination = BatchBytes(1)

\* A batch whose chunks went three ways: copied directly, staged and copied
\* at once, and staged in a block whose copy was deferred to Finalize.
InputContentWitness ==
  /\ gather.pc = "synced"
  /\ Issued(collector, "copy", "deferred") # {}
  /\ Issued(collector, "copy", "direct") # {}
  /\ collector.destination = BatchBytes(1)

GatherFinalizeStep == gather.pc = "idle" /\ gather'.pc = "finalized"

GatherResult(o) == IF o.need_sync_ THEN "true" ELSE "false"

\* C14 as stated: the collector's Finalize issues no copies, does not
\* synchronize and changes no state; it only reports need_sync.
GatherFinalizeOnlyReturns == [][GatherFinalizeStep => collector' = [collector EXCEPT !.returned = GatherResult(collector)]]_vars

\* What Finalize adds to the log when it finds deferred blocks: one
\* synchronization, then one pinned-to-tensor copy per block, each to the
\* block's offset of the destination.
DeferredCopiesAfterSync ==
  /\ Len(collector'.log) >= Len(collector.log) + 1 + Len(collector.deferred_pinned_)
  /\ collector'.log[Len(collector.log) + 1].op = "sync"
  /\ \A i \in DOMAIN collector.deferred_pinned_ :
       /\ collector'.log[Len(collector.log) + 1 + i].op = "copy"
       /\ collector'.log[Len(collector.log) + 1 + i].by = "deferred"
       /\ collector'.log[Len(collector.log) + 1 + i].src = PinnedAt(collector.deferred_pinned_[i].pinned_memory_, 0)
       /\ collector'.log[Len(collector.log) + 1 + i].dst = DestinationAt(collector.deferred_pinned_[i].tensor_buffer_offset_)
       /\ collector'.log[Len(collector.log) + 1 + i].size = collector.deferred_pinned_[i].pinned_memory_size_
  /\ \A j \in DOMAIN collector'.log : j > Len(collector.log) + 1 + Len(collector.deferred_pinned_) => collector'.log[j].op = "record"

GatherFinalizeEffect ==
  GatherFinalizeStep =>
    /\ collector'.returned = GatherResult(collector')
    /\ collector'.deferred_pinned_ = <<>>
    /\ IF collector.deferred_pinned_ = <<>>
       THEN collector' = [collector EXCEPT !.returned = GatherResult(collector)]
       ELSE DeferredCopiesAfterSync

\* C14, amended: when no deferred pinned block exists the collector's
\* Finalize issues no copies, does not synchronize and changes no state;
\* when deferred blocks exist it synchronizes, then copies each block into
\* the destination at the block's offset and drops the deferred list. In
\* both cases it returns need_sync.
GatherFinalizeCompletesDeferred == [][GatherFinalizeEffect]_vars

\* Finalize has found a deferred block and has made its copy.
GatherFinalizeWitness ==
  /\ gather.pc = "finalized"
  /\ Issued(collector, "sync", "event") # {}
  /\ Issued(collector, "copy", "deferred") # {}
  /\ collector.deferred_pinned_ = <<>>
  /\ collector.returned = "false"

\* The pending fragments of o lie one after the other in the source tensor,
\* from pending_pinned_offset_ on, and fill pending_pinned_byte_size_ bytes.
Tiles(o) ==
  /\ o.pending_pinned_outputs_ # <<>>
  /\ \A i \in DOMAIN o.pending_pinned_outputs_ :
       /\ o.pending_pinned_outputs_[i].buffer_byte_size_ = ExpectedSize(o.pending_pinned_outputs_[i].response)
       /\ ExpectedOffset(o.pending_pinned_outputs_[i].response) = o.pending_pinned_offset_ + FragmentOffset(o.pending_pinned_outputs_, i)
  /\ o.pending_pinned_byte_size_ = FragmentOffset(o.pending_pinned_outputs_, Len(o.pending_pinned_outputs_)) + o.pending_pinned_outputs_[Len(o.pending_pinned_outputs_)].buffer_byte_size_

PendingRunTiles ==
  \A o \in Objects :
    IF o.pending_pinned_byte_size_ = 0 THEN o.pending_pinned_outputs_ = <<>> ELSE Tiles(o)

\* A step by which a run that was not empty got one more fragment.
Extended(old, new) ==
  /\ old # <<>>
  /\ Len(new) = Len(old) + 1
  /\ SubSeq(new, 1, Len(old)) = old

AppendOnlyContiguous ==
  (Extended(responder.pending_pinned_outputs_, responder'.pending_pinned_outputs_)) => tensor_offset = responder.pending_pinned_offset_ + responder.pending_pinned_byte_size_

\* C15: the pending run is empty, or its fragments, in list order, are
\* adjacent slices of the source tensor that tile [pending_pinned_offset_,
\* pending_pinned_offset_ + pending_pinned_byte_size_); a response joins a
\* run that is not empty only at the run's end.
PendingRunContiguity == []PendingRunTiles /\ [][AppendOnlyContiguous]_vars

\* A run that started inside the tensor and was extended.
PendingRunWitness ==
  /\ pc = "loop"
  /\ Len(responder.pending_pinned_outputs_) >= 2
  /\ responder.pending_pinned_offset_ > 0
  /\ responder.pending_pinned_byte_size_ > responder.pending_pinned_outputs_[1].buffer_byte_size_

\* The step handles a response of `old` that is not null and gets a buffer.
GetsBuffer(old) ==
  /\ pc = "loop"
  /\ idx <= NumRequests
  /\ old.responses[idx]
  /\ actual'[<<output_name, idx>>] # "none"

\* The step added the response to the pending run of the object.
StagedNow(new) ==
  /\ new.pending_pinned_outputs_ # <<>>
  /\ new.pending_pinned_outputs_[Len(new.pending_pinned_outputs_)].response = idx
  /\ new.pending_pinned_outputs_[Len(new.pending_pinned_outputs_)].name_ = output_name

\* The step issued the direct copy of the response's slice.
DirectNow(old, new) ==
  \E j \in Issued(new, "copy", "direct") \ DOMAIN old.log : new.log[j].dst = ResponseBuffer(idx, output_name)

CrossesBoundary(source, target) == <<source, target>> \in {<<"CPU", "GPU">>, <<"GPU", "CPU">>}

DecisionTable(old, new) ==
  GetsBuffer(old) =>
    /\ StagedNow(new) <=> (old.pinned_enabled_ /\ CrossesBoundary(memory_type, actual'[<<output_name, idx>>]))
    /\ DirectNow(old, new) <=> ~StagedNow(new)

\* C16: a response is added to the pending pinned run exactly when pinned
\* staging is enabled and (source memory, actual memory of the response's
\* buffer) is (host, device) or (device, host); in every other case it is
\* copied directly.
StagingDecisionTable == [][DecisionTable(responder, responder') /\ DecisionTable(unstaged, unstaged')]_vars

\* The same call has staged one response and copied another directly, and
\* without pinned staging both were copied directly.
StagingDecisionWitness ==
  /\ pc = "loop"
  /\ responder.pending_pinned_outputs_ # <<>>
  /\ Issued(responder, "copy", "direct") # {}
  /\ Cardinality(Issued(unstaged, "copy", "direct")) >= 2
  /\ \E k \in Slots : actual[<<output_name, k>>] = "CPU_PINNED"

\* The log entries of o that copy out of a pinned block whose bulk copy was
\* asynchronous.
FromAsyncBlock(o) ==
  {j \in DOMAIN o.log :
     /\ o.log[j].op = "copy"
     /\ o.log[j].src.space = "pinned"
     /\ \E b \in Issued(o, "copy", "bulk") : o.log[b].async /\ o.log[b].dst.id = o.log[j].src.id}

\* The synchronization Finalize makes: on the event when there is one.
Barrier(o) == Issued(o, "sync", IF o.event_ THEN "event" ELSE "stream")

\* C17: no copy out of a pinned block whose bulk copy was asynchronous is
\* issued before Finalize; in Finalize each such copy comes after the
\* synchronization on the event (on the stream when there is no event), which
\* itself comes after the block's bulk copy; and while a deferred block
\* waits for Finalize, need_sync_ is set.
DeferredAfterBarrier ==
  \A o \in Objects :
    /\ o.returned = "none" => FromAsyncBlock(o) = {}
    /\ \A j \in FromAsyncBlock(o) : \A b \in Issued(o, "copy", "bulk") :
         o.log[b].dst.id = o.log[j].src.id => \E s \in Barrier(o) : b < s /\ s < j
    /\ (o.returned = "none" /\ o.deferred_pinned_ # <<>>) => o.need_sync_

\* Finalize found two deferred blocks and fanned them out after one wait.
DeferredAfterBarrierWitness ==
  /\ pc = "finalized"
  /\ Cardinality({responder.log[j].src.id : j \in FromAsyncBlock(responder)}) = 2
  /\ Cardinality(Barrier(responder)) = 1

\* The byte size of one request's part of an output of shape [b, d]: the
\* first dimension is the request's own when batching is on, the rest is the
\* caller's. With 4-byte elements and shape [B, 3], batches 2 and 1 take 24
\* and 12 bytes.
SliceSizes ==
  /\ \A dtype_size \in 1..4, b \in 1..MaxBatch, first \in 1..MaxBatch, d \in 1..3 :
       /\ GetByteSize(dtype_size, ResponseShape(MaxBatch, <<b, d>>, first)) = dtype_size * first * d
       /\ GetByteSize(dtype_size, ResponseShape(0, <<b, d>>, first)) = dtype_size * b * d
  /\ GetByteSize(4, ResponseShape(MaxBatch, <<MaxBatch, 3>>, 2)) = 24
  /\ GetByteSize(4, ResponseShape(MaxBatch, <<MaxBatch, 3>>, 1)) = 12

\* C18: inside ProcessTensor tensor_offset is the sum of the byte sizes of
\* the requests before the current one, whatever happened to their
\* responses, and at its end the sum over the whole batch; with batching a
\* request's byte size comes from the first dimension of its first input and
\* the remaining dimensions of the caller's shape.
SourceSliceAccounting ==
  /\ pc = "loop" => tensor_offset = ExpectedOffset(idx)
  /\ (pc = "idle" /\ output_name >= 1) => tensor_offset = ExpectedOffset(NumRequests + 1)
  /\ (pc = "idle" /\ output_name = 0) => SliceSizes

\* A batched call has run over a response that an earlier call had nulled.
SourceSliceWitness ==
  /\ pc = "idle"
  /\ output_name = 2
  /\ max_batch_size_ # 0
  /\ \E k \in Slots : ~responder.responses[k] /\ <<"request_err", 1, k>> \in injected
  /\ tensor_offset = ExpectedOffset(NumRequests + 1)
  /\ \E k \in Slots : ExpectedSize(k) # ExpectedSize(1)

\* The step contains a flush whose bulk copy fails.
BulkFailStep == \E x \in injected' \ injected : x[1] = "bulk_fail"

\* The responses of the pending run the step starts with.
PendingRun == {responder.pending_pinned_outputs_[i].response : i \in DOMAIN responder.pending_pinned_outputs_}

\* The sends to slot k that the step adds to the log.
NewSends(k) == SendsTo(responder', k) \ DOMAIN responder.log

BulkFailureEffect ==
  BulkFailStep =>
    /\ \A k \in PendingRun :
         /\ ~responder'.responses[k]
         /\ responder.responses[k] =>
              /\ Cardinality(NewSends(k)) = 1
              /\ \A j \in NewSends(k) : responder'.log[j].by = "COMPLETE_FINAL" /\ ~responder'.log[j].ok /\ responder'.log[j].live
         /\ ~responder.responses[k] => NewSends(k) = {}
    /\ \A k \in Slots \ (PendingRun \cup (IF idx \in Slots THEN {idx} ELSE {})) :
         /\ responder'.responses[k] = responder.responses[k]
         /\ NewSends(k) = {}
    /\ responder'.pinned_memories_ = Append(responder.pinned_memories_, Len(responder.pinned_heap) + 1)
    /\ responder'.deferred_pinned_ = responder.deferred_pinned_
    /\ \A i \in DOMAIN responder'.pending_pinned_outputs_ : responder'.pending_pinned_outputs_[i].response \notin PendingRun
    /\ (idx \notin Slots) => (responder'.pending_pinned_byte_size_ = 0 /\ responder'.pending_pinned_offset_ = 0 /\ responder'.pending_pinned_outputs_ = <<>>)

Returned == (pc = "idle" /\ output_name >= 1) \/ pc = "finalized"

\* C20: with an event configured, whenever ProcessTensor or Finalize has
\* returned with need_sync_ set, the event was recorded after the last
\* asynchronous copy the object enqueued, so waiting for the event waits for
\* every copy that is still on the stream.
EventCoverage ==
  \A o \in Objects :
    (Returned /\ o.event_ /\ o.need_sync_) =>
      /\ o.event_mark = o.enqueued
      /\ o.event_mark - o.retired = Len(o.stream)

\* Finalize returned true with copies of two ProcessTensor calls on the
\* stream and the event after the last of them.
EventCoverageWitness ==
  /\ pc = "finalized"
  /\ responder.event_
  /\ responder.returned = "true"
  /\ Cardinality(Issued(responder, "record", "event")) >= 2
  /\ Len(responder.stream) > NumRequests
  /\ responder.event_mark = responder.enqueued

\* Response k of the first ProcessTensor call was added to the pending run:
\* its buffer is in the staged memory type.
StagedAt(k) == StagedType # "CPU_PINNED" /\ actual[<<1, k>>] = StagedType

\* The last responses of the maximal runs of consecutive staged responses
\* among the first n responses.
RunEnds(n) == {e \in 1..n : StagedAt(e) /\ (e = n \/ ~StagedAt(e + 1))}

\* The runs that have been flushed: all of them once the call has returned;
\* inside the loop, those that the iteration after the response that broke
\* the run has found not contiguous.
FlushedRuns ==
  IF pc = "idle" THEN RunEnds(NumRequests)
  ELSE {e \in RunEnds(idx - 1) : e + 2 <= idx - 1}

AllocationsMatchRuns ==
  (output_name = 1 /\ pc \in {"loop", "idle"}) =>
    /\ Cardinality(Issued(responder, "alloc", "pinned")) = Cardinality(FlushedRuns)
    /\ Cardinality(Issued(responder, "copy", "bulk")) = Cardinality(Allocations)
    /\ Issued(unstaged, "alloc", "pinned") = {}
    /\ Issued(unstaged, "copy", "bulk") = {}

ReadsBlock(e, p) == e.op = "copy" /\ e.src.space = "pinned" /\ e.src.id = p

FanOutOf(o, p) == {j \in DOMAIN o.log : ReadsBlock(o.log[j], p)}

\* The copies out of block p from log entry j on read the block fragment by
\* fragment: each starts at `offset`, where the copies before it ended, and
\* ends inside the block; together they read the whole block.
RECURSIVE FanOutFrom(_, _, _, _)
FanOutFrom(o, p, j, offset) ==
  IF j > Len(o.log) THEN offset = Len(o.pinned_heap[p])
  ELSE IF ReadsBlock(o.log[j], p)
       THEN /\ o.log[j].src.off = offset
            /\ offset + o.log[j].size <= Len(o.pinned_heap[p])
            /\ FanOutFrom(o, p, j + 1, offset + o.log[j].size)
       ELSE FanOutFrom(o, p, j + 1, offset)

\* The blocks that the log entries of `new` after those of `old` read.
BlocksRead(old, new) ==
  {new.log[j].src.id : j \in {i \in DOMAIN new.log : i > Len(old.log) /\ new.log[i].op = "copy" /\ new.log[i].src.space = "pinned"}}

\* The fan-out copies a step adds to the log stay inside their blocks.
FanOutInBounds(old, new) ==
  \A p \in BlocksRead(old, new) :
    /\ FanOutOf(old, p) = {}
    /\ FanOutFrom(new, p, Len(old.log) + 1, 0)

\* The fragments of a deferred block add up to the size of its buffer.
DeferredInBounds(o, b) ==
  /\ o.deferred_pinned_[b].pinned_memory_size_ = Len(o.pinned_heap[o.deferred_pinned_[b].pinned_memory_])
  /\ o.deferred_pinned_[b].responses_ # <<>>
  /\ o.deferred_pinned_[b].pinned_memory_size_ = FragmentOffset(o.deferred_pinned_[b].responses_, Len(o.deferred_pinned_[b].responses_)) + o.deferred_pinned_[b].responses_[Len(o.deferred_pinned_[b].responses_)].buffer_byte_size_

DeferredBlocksInBounds ==
  \A o \in Objects : \A b \in DOMAIN o.deferred_pinned_ : DeferredInBounds(o, b)

\* C22: for every pinned block, fanned out in the flush or deferred to
\* Finalize, the fragments' byte sizes add up to the allocated size, and the
\* copy of fragment i reads the block from the sum of the sizes of the
\* fragments before it, null or failed ones included, so no copy reads
\* outside the block. A block is fanned out in one step (its flush, or
\* Finalize) and not again.
PinnedBlockBounds == []DeferredBlocksInBounds /\ [][FanOutInBounds(responder, responder') /\ FanOutInBounds(unstaged, unstaged')]_vars

\* In the fan-out of a flush the copy of one fragment failed and the next
\* fragment, whose response is still live, was copied from its own offset.
PinnedBlockWitness ==
  \E p \in DOMAIN responder.pinned_heap :
    \E i \in FanOutOf(responder, p), j \in FanOutOf(responder, p) :
      /\ i < j
      /\ responder.log[i].by = "fanout"
      /\ ~responder.log[i].ok
      /\ responder.log[j].ok
      /\ responder.log[j].src.off >= responder.log[i].src.off + responder.log[i].size
      /\ responder.log[j].src.off > 0
      /\ responder.responses[responder.log[j].dst.id]

====
